---- MODULE Spec2Model ----
(***************************************************************************)
(* Model of the message-pairing and deduplication engine of the            *)
(* cityhall-complaints-bot: the MessageStore singleton                     *)
(* (src/utils/messageStore.js) and the webhook handler that drives it      *)
(* (src/googleSheets.js, app.post('/webhook') and                          *)
(* processMessageWithContext).                                             *)
(*                                                                         *)
(* Three specifications share the variables:                               *)
(*   SpecDedup  the processed-id set driven through isProcessed /          *)
(*              markProcessed / clear;                                     *)
(*   SpecStore  the windowed text and image maps driven through            *)
(*              storeMessage / getRecentMessage / storeImage /             *)
(*              getRecentImage / cleanup / clear;                          *)
(*   Spec       concurrent webhook deliveries, each a handler that runs    *)
(*              from one await to the next as one atomic step.             *)
(* Further specifications drive the same handler one delivery at a time    *)
(* and record what each delivery resolved to (SpecPair, SpecRedelivery);   *)
(* SpecAnalyze follows one call of analyzeComplaint                        *)
(* (src/analyzeMessageWithAI.js) from one await to the next.               *)
(* SpecRate drives the RateLimiter (src/middleware/rateLimiter.js),        *)
(* SpecSheets applies sanitizeForSheets (utils/validation.js), SpecSweep   *)
(* runs the store with its cleanup timer, and SpecQueue the MessageQueue   *)
(* (src/utils/messageQueue.js).                                            *)
(***************************************************************************)
EXTENDS Integers, Sequences, FiniteSets, TLC

VARIABLES
    processedMessages,  \* JS Set of message ids, as the sequence of its insertion order
    recentMessages,     \* JS Map sender -> {message, timestamp}, as a set of entries
    recentImages,       \* JS Map sender -> {url, caption, timestamp}, as a set of entries
    now,                \* the value Date.now() returns
    call,               \* the store method called last (SpecDedup, SpecStore)
    ret,                \* what that call returned
    refSet,             \* reference dedup model: the hash-set
    refQueue,           \* reference dedup model: the FIFO queue of ids
    inserted,           \* history: the ids in the order they entered the set
    everMarked,         \* history: every id markProcessed was called with since clear
    hs,                 \* per handler in flight: its position and live locals
    arrivals,           \* number of deliveries received so far
    holders,            \* history: per id, the deliveries that passed the dedup check
                        \* since the id last entered the processed set
    last,               \* history: the delivery whose handler started last
    lastResp,           \* the HTTP response sent last
    stats,              \* performanceStats counters of the webhook handler
    trace,              \* history: the deliveries handled one at a time, in order,
                        \* each with the id it was given and what it resolved to
    ac,                 \* one call of analyzeComplaint: its position, retryCount,
                        \* the requests made, the delays waited and its result
    rateLimiter,        \* the RateLimiter singleton: its requests Map, what
                        \* checkLimit returned last, and as history the request
                        \* times it allowed
    messageQueue,       \* the MessageQueue singleton: its fields, the position of
                        \* its processing loops, and as history what was handed
                        \* to processFunction
    cleanupTimer        \* the store's cleanupInterval field and the interval
                        \* timers alive in the runtime

vars == <<processedMessages, recentMessages, recentImages, now, call, ret,
          refSet, refQueue, inserted, everMarked, hs, arrivals, holders,
          last, lastResp, stats, trace, ac, rateLimiter, messageQueue,
          cleanupTimer>>

dedupVars == <<processedMessages, refSet, refQueue, inserted, everMarked>>
storeVars == <<recentMessages, recentImages>>
sideVars == <<rateLimiter, messageQueue, cleanupTimer>>
hookVars == <<hs, arrivals, holders, last, lastResp, stats, trace, ac, sideVars>>

-----------------------------------------------------------------------------
(* Bounds of the model.                                                    *)

\* Stand-in for maxProcessedSize = 10000 (src/utils/messageStore.js:12): the
\* size bound of the processed set, scaled so that eviction is reached.
MaxProcessedSize == 2

\* Longest insertion history SpecDedup follows.
MaxInserted == 4

\* Number of deliveries Spec receives in one run.
MaxArrivals == 3

\* Number of webhook handlers that can be in flight at once.
MaxHandlers == 2

-----------------------------------------------------------------------------
(* Program constants.                                                      *)

maxMessageAge == 60000

\* sanitizeText's default maxLength and storeMessage's substring limit.
SanitizeMaxLength == 5000
StoredMessageLimit == 1000

Min(a, b) == IF a <= b THEN a ELSE b
Abs(x) == IF x < 0 THEN 0 - x ELSE x
Range(s) == {s[i] : i \in 1..Len(s)}

-----------------------------------------------------------------------------
(* JavaScript strings of message text and captions.  A string is `len`     *)
(* significant characters (named by `core`) followed by `pad` whitespace   *)
(* characters; this is enough to compute emptiness, trim() and             *)
(* substring(0, n) as the code does.                                       *)

Str(c, n, p) == [core |-> IF n = 0 THEN "" ELSE c, len |-> n, pad |-> p]
EmptyStr == Str("", 0, 0)
Truthy(s) == s.len + s.pad > 0
trim(s) == Str(s.core, s.len, 0)
substring(s, n) ==
    IF s.len >= n THEN Str(s.core, n, 0)
    ELSE Str(s.core, s.len, Min(s.pad, n - s.len))

\* sanitizeText(text, maxLength = 5000): '' for a falsy text, else the text cut
\* to maxLength and trimmed (the inputs of the model hold no control character).
sanitizeText(text) ==
    IF ~Truthy(text) THEN EmptyStr
    ELSE trim(substring(text, SanitizeMaxLength))

-----------------------------------------------------------------------------
(* JS Map, keyed by sender, as the set of its entries.                     *)

MapHas(m, k) == \E e \in m : e.sender = k
MapGet(m, k) == CHOOSE e \in m : e.sender = k
\* Mutant: a delete that empties the map.
MapClear(m, k) == {}

MapDelete(m, k) == {e \in m : e.sender # k}
MapSet(m, e) == MapDelete(m, e.sender) \cup {e}

-----------------------------------------------------------------------------
(* MessageStore: deduplication.                                            *)

isProcessed(pm, messageId) == messageId \in Range(pm)

\* Set.prototype.add: a member keeps its place, a new id goes last.
SetAdd(pm, x) == IF x \in Range(pm) THEN pm ELSE Append(pm, x)

\* Mutant: re-adding a member moves it to the end (access order).
SetAddTouch(pm, x) ==
    Append(SelectSeq(pm, LAMBDA y : y # x), x)

\* Mutant: markProcessed that never evicts.
markProcessedUnbounded(pm, messageId) == SetAdd(pm, messageId)

\* Mutant: markProcessed over a set whose add() moves a member to the end.
markProcessedLRU(pm, messageId) ==
    LET added == SetAddTouch(pm, messageId)
        toDelete == Len(added) - MaxProcessedSize
    IN  IF Len(added) > MaxProcessedSize
        THEN SubSeq(added, toDelete + 1, Len(added))
        ELSE added

\* Mutant: markProcessed that appends without looking (a list, not a set).
markProcessedList(pm, messageId) ==
    LET added == Append(pm, messageId)
        toDelete == Len(added) - MaxProcessedSize
    IN  IF Len(added) > MaxProcessedSize
        THEN SubSeq(added, toDelete + 1, Len(added))
        ELSE added

\* markProcessed: add, then delete the first (size - max) ids of the iterator.
markProcessed(pm, messageId) ==
    LET added == SetAdd(pm, messageId)
        toDelete == Len(added) - MaxProcessedSize
    IN  IF Len(added) > MaxProcessedSize
        THEN SubSeq(added, toDelete + 1, Len(added))
        ELSE added

-----------------------------------------------------------------------------
(* MessageStore: the windowed text and image maps.                         *)

NullRet == [found |-> FALSE, text |-> EmptyStr, url |-> "", caption |-> EmptyStr,
            timestamp |-> 0]

\* timestamp || Date.now(): 0 is falsy.
OrNow(timestamp, t) == IF timestamp # 0 THEN timestamp ELSE t

\* Mutant: storeMessage that keeps the earlier entry beside the new one.
storeMessageKeep(rm, sender, message, timestamp, t) ==
    IF sender = "" \/ ~Truthy(message) THEN rm
    ELSE rm \cup {[sender |-> sender,
                   message |-> substring(message, StoredMessageLimit),
                   timestamp |-> OrNow(timestamp, t)]}

storeMessage(rm, sender, message, timestamp, t) ==
    IF sender = "" \/ ~Truthy(message) THEN rm
    ELSE MapSet(rm, [sender |-> sender,
                     message |-> substring(message, StoredMessageLimit),
                     timestamp |-> OrNow(timestamp, t)])

\* Mutant: the window test with < in place of <=.
InWindowStrict(currentTimestamp, timestamp) ==
    Abs(currentTimestamp - timestamp) < maxMessageAge

\* Math.abs(currentTimestamp - recent.timestamp) <= this.maxMessageAge
InWindow(currentTimestamp, timestamp) ==
    Abs(currentTimestamp - timestamp) <= maxMessageAge

\* getRecentMessage: the value returned ...
getRecentMessageRet(rm, sender, currentTimestamp) ==
    IF ~MapHas(rm, sender) THEN NullRet
    ELSE LET recent == MapGet(rm, sender)
         IN  IF InWindow(currentTimestamp, recent.timestamp)
             THEN [NullRet EXCEPT !.found = TRUE, !.text = recent.message,
                                  !.timestamp = recent.timestamp]
             ELSE NullRet

\* Mutant: getRecentMessage without the lazy delete.
getRecentMessageKeep(rm, sender, currentTimestamp) == rm

\* Mutant: getRecentMessage that takes the entry out of the map.
getRecentMessageTake(rm, sender, currentTimestamp) ==
    IF ~MapHas(rm, sender) THEN rm ELSE MapDelete(rm, sender)

\* ... and the map it leaves (an entry outside the window is deleted).
getRecentMessageMap(rm, sender, currentTimestamp) ==
    IF ~MapHas(rm, sender) THEN rm
    ELSE IF InWindow(currentTimestamp, MapGet(rm, sender).timestamp) THEN rm
         ELSE MapDelete(rm, sender)

storeImage(ri, sender, imageUrl, caption, timestamp, t) ==
    IF sender = "" \/ imageUrl = "" \/ imageUrl = "null" THEN ri
    ELSE MapSet(ri, [sender |-> sender, url |-> imageUrl, caption |-> caption,
                     timestamp |-> OrNow(timestamp, t)])

\* Mutant: getRecentImage that returns the entry whatever its age.
getRecentImageRetAnyAge(ri, sender, currentTimestamp) ==
    IF ~MapHas(ri, sender) THEN NullRet
    ELSE LET recent == MapGet(ri, sender)
         IN  [NullRet EXCEPT !.found = TRUE, !.url = recent.url,
                             !.caption = recent.caption,
                             !.timestamp = recent.timestamp]

getRecentImageRet(ri, sender, currentTimestamp) ==
    IF ~MapHas(ri, sender) THEN NullRet
    ELSE LET recent == MapGet(ri, sender)
         IN  IF InWindow(currentTimestamp, recent.timestamp)
             THEN [NullRet EXCEPT !.found = TRUE, !.url = recent.url,
                                  !.caption = recent.caption,
                                  !.timestamp = recent.timestamp]
             ELSE NullRet

getRecentImageMap(ri, sender, currentTimestamp) ==
    IF ~MapHas(ri, sender) THEN ri
    ELSE IF InWindow(currentTimestamp, MapGet(ri, sender).timestamp) THEN ri
         ELSE MapDelete(ri, sender)

\* Mutant: cleanup that also drops the entries exactly maxMessageAge old.
cleanupInclusive(m, t) == {e \in m : ~(t - e.timestamp >= maxMessageAge)}

\* cleanup: both maps lose the entries with now - timestamp > maxMessageAge.
cleanup(m, t) == {e \in m : ~(t - e.timestamp > maxMessageAge)}

-----------------------------------------------------------------------------
(* Input domains.                                                          *)

\* Scaled origin of the wall clock: Date.now() never comes near the small
\* event timestamps 0 and 30000 (it is more than maxMessageAge away).
T0 == 1000000

\* Event timestamps: 0 (falsy), an old one, and three around the wall clock
\* that put a pair exactly on, just inside and just outside the window.
TS == {0, 30000, T0, T0 + maxMessageAge, T0 + maxMessageAge + 1}

\* The values Date.now() takes, in order.
Clock == <<T0 + maxMessageAge, T0 + maxMessageAge + 1, T0 + (2 * maxMessageAge) + 1>>

TextA == Str("A", 1, 1)
TextB == Str("B", 2, 0)
TextLong == Str("L", StoredMessageLimit + 1, 0)
Blank == Str("", 0, 1)
Cap == Str("cap", 3, 0)

DedupIds == {"m1", "m2", "m3", "m4"}
StoreSenders == {"s1"}
StoreTexts == {EmptyStr, TextA, TextB, TextLong}
StoreUrls == {"", "u1"}
StoreCaptions == {EmptyStr, Cap}
StoreIds == {"m1"}

-----------------------------------------------------------------------------
(* Initial state: a freshly constructed MessageStore, no delivery in       *)
(* flight.                                                                 *)

\* `had`: whether the key (the id, the sender) was present before the call; for
\* cleanup, whether a text entry was older than the window.
NoCall == [op |-> "none", id |-> "", sender |-> "", ts |-> 0, text |-> EmptyStr,
           url |-> "", had |-> FALSE]

\* A handler's live locals: the delivery's number, id and sender, for an image
\* awaiting its media URL the caption and timestampMs, and after the pairing
\* decision what processMessageWithContext returned.
IdleH == [pc |-> "idle", n |-> 0, id |-> "", sender |-> "", kind |-> "",
          caption |-> EmptyStr, timestampMs |-> 0, messageText |-> EmptyStr,
          imageUrl |-> "null", confidence |-> ""]

\* No delivery yet.
NoEvent == [id |-> "", sender |-> "", kind |-> "", ts |-> 0, text |-> EmptyStr,
            caption |-> EmptyStr, url |-> "", mediaId |-> FALSE]
NoLast == [n |-> 0, ev |-> NoEvent, outcome |-> ""]

Handlers == 1..MaxHandlers

\* Phone numbers of senders; "" is a request whose body carries none.
Phones == {"p1", "p2"}

\* new RateLimiter(): an empty requests Map (a phone without key has the empty
\* list, as this.requests.get(phoneNumber) || [] reads it), no call yet.
RateInit == [requests |-> [p \in Phones |-> <<>>],
             allowedAt |-> [p \in Phones |-> <<>>],
             calls |-> 0,
             result |-> [phone |-> "", allowed |-> TRUE, retryAfter |-> 0,
                         outcome |-> ""]]

\* new MessageQueue(): empty queue, not processing, no call of startProcessing
\* scheduled or running (loops), and as history: the number of items enqueued
\* (an item is named by its number), the items handed to their
\* processFunction in order, the number of items whose processing has
\* finished, the items removed by overflow or clear(), and the number of
\* calls of startProcessing that ended by an exception.
QueueInit == [queue |-> <<>>, processing |-> FALSE, processingErrors |-> 0,
              successfullyProcessed |-> 0, loops |-> <<>>, enqueued |-> 0,
              handed |-> <<>>, finished |-> 0, dropped |-> {}, thrown |-> 0]

\* new MessageStore() followed by messageStore.startCleanup(): the field holds
\* the one interval timer alive.
TimerInit == [cleanupInterval |-> 1, timers |-> {1}, created |-> 1,
              swept |-> FALSE]

\* analyzeComplaint not called yet.
AcIdle == [pc |-> "idle", retryCount |-> 0, requests |-> 0, status |-> 0,
           delays |-> <<>>, result |-> ""]

Init ==
    /\ processedMessages = <<>>
    /\ recentMessages = {}
    /\ recentImages = {}
    /\ now = Clock[1]
    /\ call = NoCall
    /\ ret = NullRet
    /\ refSet = {}
    /\ refQueue = <<>>
    /\ inserted = <<>>
    /\ everMarked = {}
    /\ hs = [h \in Handlers |-> IdleH]
    /\ arrivals = 0
    /\ holders = [x \in {} |-> {}]
    /\ last = NoLast
    /\ lastResp = ""
    /\ stats = [totalProcessed |-> 0, successfulAnalyses |-> 0, failedAnalyses |-> 0]
    /\ trace = <<>>
    /\ ac = AcIdle
    /\ rateLimiter = RateInit
    /\ messageQueue = QueueInit
    /\ cleanupTimer = TimerInit

-----------------------------------------------------------------------------
(* SpecDedup: the processed-id set called directly.                        *)

\* The reference design: a hash-set paired with a FIFO queue, evicting from
\* the queue head and removing from the set in lockstep.
RECURSIVE RefEvict(_, _)
RefEvict(s, q) ==
    IF Cardinality(s) > MaxProcessedSize
    THEN RefEvict(s \ {Head(q)}, Tail(q))
    ELSE <<s, q>>

RefMark(s, q, x) ==
    IF x \in s THEN <<s, q>> ELSE RefEvict(s \cup {x}, Append(q, x))

IsProcessedCall(x) ==
    /\ call' = [NoCall EXCEPT !.op = "isProcessed", !.id = x,
                              !.had = x \in Range(processedMessages)]
    /\ ret' = [NullRet EXCEPT !.found = isProcessed(processedMessages, x)]
    /\ UNCHANGED <<dedupVars, storeVars, now, hookVars>>

MarkProcessedCall(x) ==
    /\ x \in Range(processedMessages) \/ Len(inserted) < MaxInserted
    /\ call' = [NoCall EXCEPT !.op = "markProcessed", !.id = x,
                              !.had = x \in Range(processedMessages)]
    /\ ret' = NullRet
    /\ processedMessages' = markProcessed(processedMessages, x)
    /\ refSet' = RefMark(refSet, refQueue, x)[1]
    /\ refQueue' = RefMark(refSet, refQueue, x)[2]
    /\ inserted' = IF x \in Range(processedMessages) THEN inserted
                   ELSE Append(inserted, x)
    /\ everMarked' = everMarked \cup {x}
    /\ UNCHANGED <<storeVars, now, hookVars>>

\* clear(): all three collections are emptied.
ClearCall ==
    /\ call' = [NoCall EXCEPT !.op = "clear"]
    /\ ret' = NullRet
    /\ processedMessages' = <<>>
    /\ recentMessages' = {}
    /\ recentImages' = {}
    /\ refSet' = {}
    /\ refQueue' = <<>>
    /\ inserted' = <<>>
    /\ everMarked' = {}
    /\ UNCHANGED <<now, hookVars>>

NextDedup ==
    \/ \E x \in DedupIds : IsProcessedCall(x)
    \/ \E x \in DedupIds : MarkProcessedCall(x)
    \/ ClearCall

SpecDedup == Init /\ [][NextDedup]_vars

-----------------------------------------------------------------------------
(* SpecStore: the windowed maps called directly.                           *)

StoreMessageCall(s, m, t) ==
    /\ call' = [NoCall EXCEPT !.op = "storeMessage", !.sender = s, !.ts = t,
                              !.text = m, !.had = MapHas(recentMessages, s)]
    /\ ret' = NullRet
    /\ recentMessages' = storeMessage(recentMessages, s, m, t, now)
    /\ UNCHANGED <<recentImages, dedupVars, now, hookVars>>

GetRecentMessageCall(s, t) ==
    /\ call' = [NoCall EXCEPT !.op = "getRecentMessage", !.sender = s, !.ts = t,
                              !.had = MapHas(recentMessages, s)]
    /\ ret' = getRecentMessageRet(recentMessages, s, t)
    /\ recentMessages' = getRecentMessageMap(recentMessages, s, t)
    /\ UNCHANGED <<recentImages, dedupVars, now, hookVars>>

StoreImageCall(s, u, c, t) ==
    /\ call' = [NoCall EXCEPT !.op = "storeImage", !.sender = s, !.ts = t,
                              !.text = c, !.url = u,
                              !.had = MapHas(recentImages, s)]
    /\ ret' = NullRet
    /\ recentImages' = storeImage(recentImages, s, u, c, t, now)
    /\ UNCHANGED <<recentMessages, dedupVars, now, hookVars>>

GetRecentImageCall(s, t) ==
    /\ call' = [NoCall EXCEPT !.op = "getRecentImage", !.sender = s, !.ts = t,
                              !.had = MapHas(recentImages, s)]
    /\ ret' = getRecentImageRet(recentImages, s, t)
    /\ recentImages' = getRecentImageMap(recentImages, s, t)
    /\ UNCHANGED <<recentMessages, dedupVars, now, hookVars>>

\* The setInterval callback of startCleanup: cleanup() at the current time.
CleanupCall ==
    /\ call' = [NoCall EXCEPT !.op = "cleanup",
                              !.had = \E e \in recentMessages :
                                         now - e.timestamp > maxMessageAge]
    /\ ret' = NullRet
    /\ recentMessages' = cleanup(recentMessages, now)
    /\ recentImages' = cleanup(recentImages, now)
    /\ UNCHANGED <<dedupVars, now, hookVars>>

\* Time passes: Date.now() moves to a later value.
Tick ==
    /\ \E i \in 1..Len(Clock) : Clock[i] > now /\ now' = Clock[i]
    /\ UNCHANGED <<storeVars, dedupVars, call, ret, hookVars>>

NextStore ==
    \/ \E s \in StoreSenders, m \in StoreTexts, t \in TS : StoreMessageCall(s, m, t)
    \/ \E s \in StoreSenders, t \in TS : GetRecentMessageCall(s, t)
    \/ \E s \in StoreSenders, u \in StoreUrls, c \in StoreCaptions, t \in TS :
           StoreImageCall(s, u, c, t)
    \/ \E s \in StoreSenders, t \in TS : GetRecentImageCall(s, t)
    \/ \E x \in StoreIds : MarkProcessedCall(x)
    \/ CleanupCall
    \/ ClearCall
    \/ Tick

SpecStore == Init /\ [][NextStore]_vars

-----------------------------------------------------------------------------
(* Spec: the webhook handler, app.post('/webhook').                        *)
(*                                                                         *)
(* Node runs a handler without interruption from one await that really    *)
(* suspends to the next, so each such stretch is one action: Deliver (a    *)
(* request that passed the middleware arrives: parse, dedup, pairing       *)
(* decision), MediaReturn (the continuation after getMediaUrlFromMeta),    *)
(* AnalyzeReturn, AppendReturn / AppendThrow.                              *)

HookIds == {"m1", "m2"}
HookSenders == {"s1"}
HookTS == {0, 30000, T0 + maxMessageAge}

\* The fallback text '(תמונה ללא טקסט, לא ניתן לקשר לפנייה)', 37 characters.
SentinelLength == 37
Sentinel == Str("SENTINEL", SentinelLength, 0)

\* Text deliveries (Gupshup format: payload.text).
TextEvents ==
    [id : HookIds, sender : HookSenders, kind : {"text"}, ts : HookTS,
     text : {Blank, TextA, TextLong}, caption : {EmptyStr}, url : {""},
     mediaId : {FALSE}]

\* Image deliveries: with a direct URL (Gupshup), or with a media id only
\* (Meta), whose URL the handler fetches with getMediaUrlFromMeta.
ImageEvents ==
    [id : HookIds, sender : HookSenders, kind : {"image"}, ts : HookTS,
     text : {EmptyStr}, caption : {EmptyStr, Blank, Cap}, url : {"u1"},
     mediaId : {FALSE}]
    \cup
    [id : HookIds, sender : HookSenders, kind : {"image"}, ts : HookTS,
     text : {EmptyStr}, caption : {EmptyStr, Blank, Cap}, url : {""},
     mediaId : {TRUE}]

\* A Gupshup delivery of type 'failed': parseWebhookPayload gives no message.
FailedEvents ==
    {[id |-> "m1", sender |-> "s1", kind |-> "failed", ts |-> 0, text |-> EmptyStr,
      caption |-> EmptyStr, url |-> "", mediaId |-> FALSE]}

Events == TextEvents \cup ImageEvents \cup FailedEvents

\* What getMediaUrlFromMeta resolves to: the media URL, or null on any failure.
MetaUrls == {"uMeta", "null"}

\* parseWebhookPayload: Meta takes parseInt(message.timestamp) * 1000 as it is,
\* Gupshup takes mainPayload.timestamp || Date.now().
parseTimestampMs(ev, t) == IF ev.mediaId THEN ev.ts ELSE OrNow(ev.ts, t)

\* isContentRelated: false when either text is falsy; else true when both hold
\* a complaint keyword or they share at least two significant words.
Keyworded == {"L", "cap"}
Words(c) == IF c \in {"A", "cap"} THEN {"broken", "lamp"} ELSE {}
isContentRelated(text1, text2) ==
    IF ~Truthy(text1) \/ ~Truthy(text2) THEN FALSE
    ELSE \/ (text1.core \in Keyworded /\ text2.core \in Keyworded)
         \/ Cardinality(Words(text1.core) \cap Words(text2.core)) >= 2

\* caption && caption.trim().length > 0
hasCaption(caption) == Truthy(caption) /\ trim(caption).len > 0

\* Mutant: the image branch looks up the stored text before it looks at the caption.
imageBranchMapLookupFirst(rm, caption, sender, timestampMs) ==
    getRecentMessageMap(rm, sender, timestampMs)

\* The image branch of processMessageWithContext after storeImage: the text map
\* it leaves (only a caption-less image looks the sender's text up) ...
imageBranchMap(rm, caption, sender, timestampMs) ==
    IF hasCaption(caption) THEN rm
    ELSE getRecentMessageMap(rm, sender, timestampMs)

\* Mutant: without a paired text the caption (empty) is kept as the text.
imageBranchResultNoSentinel(rm, caption, sender, timestampMs) ==
    IF hasCaption(caption)
    THEN [messageText |-> caption, confidence |-> "image_with_caption"]
    ELSE LET recentMessage == getRecentMessageRet(rm, sender, timestampMs)
         IN  IF recentMessage.found
             THEN [messageText |-> recentMessage.text,
                   confidence |-> "paired_image_text"]
             ELSE [messageText |-> EmptyStr, confidence |-> "image_only"]

\* ... and the messageText and confidence it returns.
imageBranchResult(rm, caption, sender, timestampMs) ==
    IF hasCaption(caption)
    THEN [messageText |-> caption, confidence |-> "image_with_caption"]
    ELSE LET recentMessage == getRecentMessageRet(rm, sender, timestampMs)
         IN  IF recentMessage.found
             THEN [messageText |-> recentMessage.text,
                   confidence |-> "paired_image_text"]
             ELSE [messageText |-> Sentinel, confidence |-> "image_only"]

\* The image branch of processMessageWithContext from storeImage on, with the
\* image URL settled, as a function of the two maps and of Date.now() = t: the
\* maps it leaves and the { messageText, imageUrl, confidence } it returns.
imageBranch(rm, ri, sender, caption, tms, iu, t) ==
    LET r == imageBranchResult(rm, caption, sender, tms)
    IN  [rm |-> imageBranchMap(rm, caption, sender, tms),
         ri |-> storeImage(ri, sender, iu, caption, tms, t),
         messageText |-> r.messageText, imageUrl |-> iu,
         confidence |-> r.confidence]

\* The text branch of processMessageWithContext, likewise.
textBranch(rm, ri, sender, text, tms, t) ==
    LET messageText == sanitizeText(text)
        recentImage == getRecentImageRet(ri, sender, tms)
        paired == recentImage.found
                  /\ isContentRelated(messageText, recentImage.caption)
    IN  [rm |-> storeMessage(rm, sender, messageText, tms, t),
         ri |-> getRecentImageMap(ri, sender, tms),
         messageText |-> messageText,
         imageUrl |-> IF paired THEN recentImage.url ELSE "null",
         confidence |-> IF paired THEN "paired_text_image" ELSE "high"]

\* The image branch run by handler h on the store.
ImageDecision(h, n, id, sender, caption, tms, iu) ==
    LET d == imageBranch(recentMessages, recentImages, sender, caption, tms, iu, now)
    IN  /\ recentImages' = d.ri
        /\ recentMessages' = d.rm
        /\ hs' = [hs EXCEPT ![h] =
                     [IdleH EXCEPT !.pc = "analyze", !.n = n, !.id = id,
                                   !.sender = sender, !.kind = "image",
                                   !.messageText = d.messageText,
                                   !.imageUrl = d.imageUrl,
                                   !.confidence = d.confidence]]

\* The text branch run by handler h on the store.
TextDecision(h, n, ev, tms) ==
    LET d == textBranch(recentMessages, recentImages, ev.sender, ev.text, tms, now)
    IN  /\ recentMessages' = d.rm
        /\ recentImages' = d.ri
        /\ hs' = [hs EXCEPT ![h] =
                     [IdleH EXCEPT !.pc = "analyze", !.n = n, !.id = ev.id,
                                   !.sender = ev.sender, !.kind = "text",
                                   !.messageText = d.messageText,
                                   !.imageUrl = d.imageUrl,
                                   !.confidence = d.confidence]]

\* Mutant: the duplicate check of the handler never fires.
dedupHitNever(pm, messageId) == FALSE

\* if (messageStore.isProcessed(messageId)) return 'Duplicate'
dedupHit(pm, messageId) == isProcessed(pm, messageId)

\* holders after delivery n passed the check with id x and x was marked.
HoldersAfterMark(x, n) ==
    LET pm1 == markProcessed(processedMessages, x)
    IN  [y \in Range(pm1) |->
            IF y = x
            THEN (IF x \in Range(processedMessages) THEN holders[x] ELSE {}) \cup {n}
            ELSE holders[y]]

\* The handlers are interchangeable: a delivery takes the first free one.
FirstIdle(h) == hs[h].pc = "idle" /\ \A g \in Handlers : g < h => hs[g].pc # "idle"

\* A request arrives and its handler runs to its first suspension (or to its
\* early return); ev is the messageData parseWebhookPayload made of the body.
DeliverStep(h, ev) ==
    /\ FirstIdle(h)
    /\ arrivals' = arrivals + 1
    /\ UNCHANGED <<refSet, refQueue, inserted, everMarked, now, call, ret, stats,
                   ac, sideVars>>
    /\ LET n == arrivals + 1 IN
       IF ev.kind = "failed"
       THEN /\ last' = [n |-> n, ev |-> NoEvent, outcome |-> "nodata"]
            /\ lastResp' = "No message data"
            /\ UNCHANGED <<processedMessages, storeVars, holders, hs>>
       ELSE IF dedupHit(processedMessages, ev.id)
       THEN /\ last' = [n |-> n, ev |-> [NoEvent EXCEPT !.id = ev.id],
                        outcome |-> "duplicate"]
            /\ lastResp' = "Duplicate"
            /\ UNCHANGED <<processedMessages, storeVars, holders, hs>>
       ELSE LET tms == parseTimestampMs(ev, now)
            IN  /\ processedMessages' = markProcessed(processedMessages, ev.id)
                /\ holders' = HoldersAfterMark(ev.id, n)
                /\ lastResp' = lastResp
                /\ IF ev.kind = "text"
                   THEN /\ TextDecision(h, n, ev, tms)
                        /\ last' = [n |-> n, ev |-> ev, outcome |-> "decided"]
                   ELSE IF ev.url = "" /\ ev.mediaId
                   THEN /\ hs' = [hs EXCEPT ![h] =
                                     [IdleH EXCEPT !.pc = "media", !.n = n,
                                                   !.id = ev.id,
                                                   !.sender = ev.sender,
                                                   !.kind = "image",
                                                   !.caption = ev.caption,
                                                   !.timestampMs = tms]]
                        /\ last' = [n |-> n, ev |-> ev, outcome |-> "media"]
                        /\ UNCHANGED storeVars
                   ELSE /\ ImageDecision(h, n, ev.id, ev.sender, ev.caption, tms,
                                         ev.url)
                        /\ last' = [n |-> n, ev |-> ev, outcome |-> "decided"]

\* The handlers of Spec: up to MaxArrivals deliveries.
Deliver(h, ev) ==
    /\ arrivals < MaxArrivals
    /\ DeliverStep(h, ev)
    /\ UNCHANGED trace

\* getMediaUrlFromMeta settles; the image branch goes on.
MediaReturnStep(h, u) ==
    /\ hs[h].pc = "media"
    /\ ImageDecision(h, hs[h].n, hs[h].id, hs[h].sender, hs[h].caption,
                     hs[h].timestampMs, u)
    /\ UNCHANGED <<dedupVars, now, call, ret, arrivals, holders, last, lastResp,
                   stats, ac, sideVars>>

MediaReturn(h, u) == MediaReturnStep(h, u) /\ UNCHANGED trace

\* analyzeComplaint resolves (it never rejects: every failure ends in the
\* fallback record); appendToSheet is called.
AnalyzeReturn(h) ==
    /\ hs[h].pc = "analyze"
    /\ hs' = [hs EXCEPT ![h].pc = "append"]
    /\ UNCHANGED <<dedupVars, storeVars, now, call, ret, arrivals, holders, last,
                   lastResp, stats, trace, ac, sideVars>>

\* appendToSheet resolves: the metrics are updated, 200 'success'.
AppendReturnStep(h) ==
    /\ hs[h].pc = "append"
    /\ hs' = [hs EXCEPT ![h] = IdleH]
    /\ lastResp' = "success"
    /\ stats' = [stats EXCEPT !.totalProcessed = @ + 1,
                              !.successfulAnalyses = @ + 1]
    /\ UNCHANGED <<dedupVars, storeVars, now, call, ret, arrivals, holders, last,
                   ac, sideVars>>

AppendReturn(h) == AppendReturnStep(h) /\ UNCHANGED trace

\* Mutant: a catch block that undoes the delivery (unmarks the id and drops the
\* sender's entries) so that a retry is processed again.
AppendThrowRollback(h) ==
    /\ hs[h].pc = "append"
    /\ hs' = [hs EXCEPT ![h] = IdleH]
    /\ lastResp' = "error"
    /\ stats' = [stats EXCEPT !.totalProcessed = @ + 1,
                              !.failedAnalyses = @ + 1]
    /\ processedMessages' = SelectSeq(processedMessages, LAMBDA y : y # hs[h].id)
    /\ recentMessages' = MapDelete(recentMessages, hs[h].sender)
    /\ recentImages' = MapDelete(recentImages, hs[h].sender)
    /\ UNCHANGED <<refSet, refQueue, inserted, everMarked, now, call, ret, arrivals,
                   holders, last, ac, sideVars>>

\* appendToSheet rejects: the catch block, 500.
AppendThrowStep(h) ==
    /\ hs[h].pc = "append"
    /\ hs' = [hs EXCEPT ![h] = IdleH]
    /\ lastResp' = "error"
    /\ stats' = [stats EXCEPT !.totalProcessed = @ + 1,
                              !.failedAnalyses = @ + 1]
    /\ UNCHANGED <<dedupVars, storeVars, now, call, ret, arrivals, holders, last,
                   ac, sideVars>>

AppendThrow(h) == AppendThrowStep(h) /\ UNCHANGED trace

\* The cleanup timer fires between two handler steps.
CleanupTimer ==
    /\ recentMessages' = cleanup(recentMessages, now)
    /\ recentImages' = cleanup(recentImages, now)
    /\ UNCHANGED <<dedupVars, now, call, ret, hookVars>>

Next ==
    \/ \E h \in Handlers, ev \in Events : Deliver(h, ev)
    \/ \E h \in Handlers, u \in MetaUrls : MediaReturn(h, u)
    \/ \E h \in Handlers : AnalyzeReturn(h)
    \/ \E h \in Handlers : AppendReturn(h)
    \/ \E h \in Handlers : AppendThrow(h)
    \/ CleanupTimer
    \/ Tick

Spec == Init /\ [][Next]_vars

-----------------------------------------------------------------------------
(* The webhook handler, one delivery at a time: each request arrives when  *)
(* the handler of the one before has answered.  The trace keeps, for every *)
(* delivery, the body it came with, the messageId parseWebhookPayload gave *)
(* it, how the handler left it and what processMessageWithContext          *)
(* returned.                                                               *)

TraceEntry(ev, id, outcome, h) ==
    [ev |-> ev, id |-> id, outcome |-> outcome, messageText |-> h.messageText,
     imageUrl |-> h.imageUrl, confidence |-> h.confidence]

\* A request with body ev, to which parseWebhookPayload gives messageId id.
SeqDeliver(ev, id) ==
    /\ DeliverStep(1, [ev EXCEPT !.id = id])
    /\ trace' = Append(trace, TraceEntry(ev, id, last'.outcome, hs'[1]))

SeqAppendReturn ==
    /\ AppendReturnStep(1)
    /\ trace' = [trace EXCEPT ![Len(trace)].outcome = "success"]

SeqAppendThrow ==
    /\ AppendThrowStep(1)
    /\ trace' = [trace EXCEPT ![Len(trace)].outcome = "error"]

\* The deliveries of the trace that went through the pairing decision.
Decided(e) == e.outcome \in {"decided", "success", "error"}

-----------------------------------------------------------------------------
(* SpecPair: texts and images of two senders, delivered one at a time with *)
(* provider ids that are all different, while the clock moves and the      *)
(* cleanup timer fires.                                                    *)

PairSenders == {"s1", "s2"}

\* Event timestamps: an old one (a replayed event) and two live ones 10 s
\* apart.
PairGap == 10000
PairTS == {30000, T0 + maxMessageAge, T0 + maxMessageAge + PairGap}

\* The id the provider gives to its n-th event.
PairId(n) == "m" \o ToString(n)

\* The URL of the image of the provider's n-th event.
PairUrl(n) == "u" \o ToString(n)

\* The bodies, before the provider numbers them.
PairEvents ==
    [id : {""}, sender : PairSenders, kind : {"text"}, ts : PairTS,
     text : {TextA}, caption : {EmptyStr}, url : {""}, mediaId : {FALSE}]
    \cup
    [id : {""}, sender : PairSenders, kind : {"image"}, ts : PairTS,
     text : {EmptyStr}, caption : {EmptyStr, Cap}, url : {"u"},
     mediaId : {FALSE}]

PairDeliver(ev) ==
    LET n == arrivals + 1
        body == [ev EXCEPT !.id = PairId(n),
                           !.url = IF ev.kind = "image" THEN PairUrl(n) ELSE ""]
    IN  /\ arrivals < MaxArrivals
        /\ SeqDeliver(body, body.id)

NextPair ==
    \/ \E ev \in PairEvents : PairDeliver(ev)
    \/ AnalyzeReturn(1)
    \/ SeqAppendReturn
    \/ SeqAppendThrow
    \/ CleanupTimer
    \/ Tick

SpecPair == Init /\ [][NextPair]_vars

-----------------------------------------------------------------------------
(* SpecRedelivery: the provider delivers its events again (a retry after a *)
(* failure or a lost answer), one delivery at a time; some events come     *)
(* without an id of their own.                                             *)

\* Number of deliveries SpecRedelivery receives in one run.
MaxRedeliveries == 4

\* The values Math.random() returns.
Randoms == {1, 2}

\* generateMessageId(message): the components joined with '-'; it is called for
\* a body without id, so the last component is Math.random() = r.
generateMessageId(message, t, r) ==
    (IF message.sender # "" THEN message.sender ELSE "unknown")
    \o "-" \o ToString(OrNow(message.ts, t))
    \o "-" \o (IF message.kind # "" THEN message.kind ELSE "unknown")
    \o "-" \o ToString(r)

\* const messageId = mainPayload.id || generateMessageId(mainPayload)
parseMessageId(ev, t, r) ==
    IF ev.id # "" THEN ev.id ELSE generateMessageId(ev, t, r)

RedeliveryEvents ==
    [id : {"", "m1", "m2", "m3"}, sender : {"s1"}, kind : {"text"},
     ts : {T0 + maxMessageAge}, text : {TextA}, caption : {EmptyStr}, url : {""},
     mediaId : {FALSE}]
    \cup
    [id : {"", "m1", "m2", "m3"}, sender : {"s1"}, kind : {"image"},
     ts : {T0 + maxMessageAge}, text : {EmptyStr}, caption : {EmptyStr},
     url : {"u1"}, mediaId : {FALSE}]

Redeliver(ev, r) ==
    /\ arrivals < MaxRedeliveries
    /\ SeqDeliver(ev, parseMessageId(ev, now, r))

NextRedelivery ==
    \/ \E ev \in RedeliveryEvents, r \in Randoms : Redeliver(ev, r)
    \/ AnalyzeReturn(1)
    \/ SeqAppendReturn
    \/ SeqAppendThrow

SpecRedelivery == Init /\ [][NextRedelivery]_vars

-----------------------------------------------------------------------------
(* SpecAnalyze: one call of analyzeComplaint({ message, timestamp,         *)
(* imageUrl }).  The function runs from one await to the next as one step; *)
(* what each await settles to is the choice of the network: the fetch      *)
(* (cut short by the AbortController timer), the reading of the response   *)
(* body (response.text(), response.json(), which no timer bounds: the      *)
(* timer is cleared once fetch has resolved), the retry delay.             *)

maxRetries == 3

\* HTTP statuses of the API's response.
Statuses == {200, 400, 429, 500, 503}

\* What response.json() can resolve to: no choices[0].message.content, a
\* content that safeJSONParse cannot parse, a content that parses and is
\* enhanced, a content on which the code that follows throws.
Bodies == {"nocontent", "unparsable", "valid", "throws"}

restVars == <<dedupVars, storeVars, now, call, ret, hs, arrivals, holders, last,
              lastResp, stats, trace, sideVars>>

\* return createFallbackResponse(...)
Fallback == ac' = [ac EXCEPT !.pc = "done", !.result = "fallback"]

\* await new Promise(resolve => setTimeout(resolve, delay)), before the
\* recursive call with retryCount + 1.
RetryAfter(delay) == ac' = [ac EXCEPT !.pc = "delay", !.delays = Append(@, delay)]

\* const delay = Math.min(1000 * Math.pow(2, retryCount), 10000)
backoff(retryCount) ==
    IF 1000 * (2 ^ retryCount) <= 10000 THEN 1000 * (2 ^ retryCount) ELSE 10000

\* The handler calls analyzeComplaint: without API key the fallback at once,
\* else the first request.
AnalyzeCall(hasKey) ==
    /\ ac.pc = "idle"
    /\ IF hasKey
       THEN ac' = [ac EXCEPT !.pc = "fetch", !.requests = 1]
       ELSE Fallback
    /\ UNCHANGED restVars

\* fetch resolves with a response.
FetchResponse(status) ==
    /\ ac.pc = "fetch"
    /\ ac' = [ac EXCEPT !.pc = IF status >= 200 /\ status <= 299 THEN "json"
                                ELSE "text",
                        !.status = status]
    /\ UNCHANGED restVars

\* The timer aborts the fetch: AbortError, retried after 2000 ms.
FetchAbort ==
    /\ ac.pc = "fetch"
    /\ IF ac.retryCount < maxRetries THEN RetryAfter(2000) ELSE Fallback
    /\ UNCHANGED restVars

\* fetch rejects with another error: the fallback.
FetchReject ==
    /\ ac.pc = "fetch"
    /\ Fallback
    /\ UNCHANGED restVars

\* response.text() of a response that is not ok settles (a rejection is caught
\* in place): 5xx and 429 are retried with backoff, the rest throws
\* ExternalServiceError into the catch block.
TextSettle ==
    /\ ac.pc = "text"
    /\ IF (ac.status >= 500 \/ ac.status = 429) /\ ac.retryCount < maxRetries
       THEN RetryAfter(backoff(ac.retryCount))
       ELSE Fallback
    /\ UNCHANGED restVars

\* response.json() resolves.
JsonResolve(body) ==
    /\ ac.pc = "json"
    /\ CASE body = "nocontent" -> Fallback
         [] body = "unparsable" ->
               IF ac.retryCount < maxRetries THEN RetryAfter(2000) ELSE Fallback
         [] body = "valid" -> ac' = [ac EXCEPT !.pc = "done", !.result = "ai"]
         [] body = "throws" -> Fallback
    /\ UNCHANGED restVars

\* response.json() rejects: the catch block, the fallback.
JsonReject ==
    /\ ac.pc = "json"
    /\ Fallback
    /\ UNCHANGED restVars

\* The delay is over: analyzeComplaint(..., retryCount + 1) makes its request.
DelayElapsed ==
    /\ ac.pc = "delay"
    /\ ac' = [ac EXCEPT !.pc = "fetch", !.retryCount = @ + 1, !.requests = @ + 1]
    /\ UNCHANGED restVars

\* The fetch settles one way or another.
FetchSettle ==
    \/ \E status \in Statuses : FetchResponse(status)
    \/ FetchAbort
    \/ FetchReject

NextAnalyze ==
    \/ \E hasKey \in BOOLEAN : AnalyzeCall(hasKey)
    \/ \E status \in Statuses : FetchResponse(status)
    \/ FetchAbort
    \/ FetchReject
    \/ TextSettle
    \/ \E body \in Bodies : JsonResolve(body)
    \/ JsonReject
    \/ DelayElapsed

\* The timers of the code fire: a pending fetch is settled at the latest by the
\* abort, a delay ends.  Nothing in the code ends the reading of a body.
SpecAnalyze ==
    /\ Init
    /\ [][NextAnalyze]_vars
    /\ WF_vars(\E hasKey \in BOOLEAN : AnalyzeCall(hasKey))
    /\ WF_vars(FetchSettle)
    /\ WF_vars(DelayElapsed)

-----------------------------------------------------------------------------
(* SpecRate: the RateLimiter singleton (src/middleware/rateLimiter.js)     *)
(* behind rateLimitMiddleware, one request at a time, with the clock       *)
(* moving between requests.                                                *)

windowMs == 60000

\* maxRequests (10 in the code), the number of phones above which checkLimit
\* sweeps the Map (1000 in the code), and the number of requests followed.
MaxRequests == 2
MaxTracked == 1
MaxChecks == 5

\* Values of Date.now(): a window's first instant, its last instant inside,
\* the first instants outside, and the same one window later.
RateClock == {Clock[1], Clock[1] + 1, Clock[1] + windowMs - 1, Clock[1] + windowMs,
              Clock[1] + windowMs + 1, Clock[1] + 2 * windowMs - 1,
              Clock[1] + 2 * windowMs}

RECURSIVE SeqMin(_)
SeqMin(q) == IF Len(q) = 1 THEN q[1] ELSE Min(q[1], SeqMin(Tail(q)))

\* Math.ceil(x / 1000) for x > 0.
CeilSeconds(x) == (x + 999) \div 1000

\* phoneRequests.filter(timestamp => now - timestamp < this.windowMs)
validRequests(phoneRequests, t) ==
    SelectSeq(phoneRequests, LAMBDA timestamp : t - timestamp < windowMs)

overLimitAbove(valid) == Len(valid) > MaxRequests

\* validRequests.length >= this.maxRequests
overLimit(valid) == Len(valid) >= MaxRequests

\* Math.max(1, Math.ceil((Math.min(...validRequests) + windowMs - now) / 1000))
retryAfter(valid, t) ==
    LET r == CeilSeconds(SeqMin(valid) + windowMs - t) IN IF r >= 1 THEN r ELSE 1

\* cleanup(): every phone keeps its timestamps inside the window; a phone left
\* with none loses its key.
rateCleanup(requests, t) == [p \in Phones |-> validRequests(requests[p], t)]

\* checkLimit(phoneNumber) at Date.now() = t: the Map afterwards and the
\* result returned.
checkLimit(requests, phoneNumber, t) ==
    LET valid == validRequests(requests[phoneNumber], t) IN
    IF overLimit(valid)
    THEN [requests |-> requests,
          allowed |-> FALSE, retryAfter |-> retryAfter(valid, t)]
    ELSE LET set == [requests EXCEPT ![phoneNumber] = Append(valid, t)] IN
         [requests |-> IF Cardinality({p \in Phones : set[p] # <<>>}) > MaxTracked
                       THEN rateCleanup(set, t) ELSE set,
          allowed |-> TRUE, retryAfter |-> 0]

\* rateLimitMiddleware(req, res, next): a request without phone number passes
\* unchecked; a request over the limit throws RateLimitError.
RateLimitMiddlewareCall(phone) ==
    /\ rateLimiter.calls < MaxChecks
    /\ IF phone = ""
       THEN rateLimiter' = [rateLimiter EXCEPT
                !.calls = @ + 1,
                !.result = [phone |-> "", allowed |-> TRUE, retryAfter |-> 0,
                            outcome |-> "next"]]
       ELSE LET r == checkLimit(rateLimiter.requests, phone, now) IN
            rateLimiter' = [rateLimiter EXCEPT
                !.requests = r.requests,
                !.calls = @ + 1,
                !.allowedAt[phone] = IF r.allowed THEN Append(@, now) ELSE @,
                !.result = [phone |-> phone, allowed |-> r.allowed,
                            retryAfter |-> r.retryAfter,
                            outcome |-> IF r.allowed THEN "next"
                                        ELSE "RateLimitError"]]
    /\ UNCHANGED <<dedupVars, storeVars, now, call, ret, hs, arrivals, holders,
                   last, lastResp, stats, trace, ac, messageQueue, cleanupTimer>>

\* setInterval(() => rateLimiter.cleanup(), 300000)
RateCleanupTimer ==
    /\ rateLimiter' = [rateLimiter EXCEPT
            !.requests = rateCleanup(rateLimiter.requests, now)]
    /\ UNCHANGED <<dedupVars, storeVars, now, call, ret, hs, arrivals, holders,
                   last, lastResp, stats, trace, ac, messageQueue, cleanupTimer>>

\* Time passes.
RateTick ==
    /\ \E t \in RateClock : t > now /\ now' = t
    /\ UNCHANGED <<dedupVars, storeVars, call, ret, hookVars>>

NextRate ==
    \/ \E phone \in Phones \cup {""} : RateLimitMiddlewareCall(phone)
    \/ RateCleanupTimer
    \/ RateTick

SpecRate == Init /\ [][NextRate]_vars

-----------------------------------------------------------------------------
(* SpecSheets: sanitizeForSheets(value) of utils/validation.js, applied to *)
(* strings given as the sequence of their characters.                      *)

\* The characters told apart: the four that start a formula, the apostrophe,
\* a letter, and a control character (\x00-\x1f, \x7f-\x9f: tab and newline
\* are among them).
FormulaChars == {"=", "+", "-", "@"}
SheetChars == FormulaChars \cup {"'", "a", "ctl"}

\* Longest input followed, and the cell limit (32767 characters in the code).
MaxLen == 4
CellLimit == 3

SheetStrings == UNION {[1..n -> SheetChars] : n \in 0..MaxLen}

\* /^[=+\-@]/.test(value)
startsFormula(value) == Len(value) > 0 /\ value[1] \in FormulaChars

\* value.replace(/[\x00-\x1f\x7f-\x9f]/g, '')
removeControl(value) == SelectSeq(value, LAMBDA c : c # "ctl")

\* sanitizeForSheets(value) for a string: the apostrophe is put in front of
\* the value as given, then the control characters are removed, then the value
\* is cut to the cell limit.
sanitizeForSheets(value) ==
    LET escaped == IF startsFormula(value) THEN <<"'">> \o value ELSE value
        cleaned == removeControl(escaped)
    IN  SubSeq(cleaned, 1, Min(Len(cleaned), CellLimit))

SanitizeForSheetsCall(value) ==
    /\ call' = [op |-> "sanitizeForSheets", value |-> value]
    /\ ret' = sanitizeForSheets(value)
    /\ UNCHANGED <<dedupVars, storeVars, now, hookVars>>

NextSheets == \E value \in SheetStrings : SanitizeForSheetsCall(value)

SpecSheets == Init /\ [][NextSheets]_vars

-----------------------------------------------------------------------------
(* SpecSweep: the store with its cleanup timer (startCleanup, stopCleanup  *)
(* and the setInterval callback), entries being stored and no lookup ever  *)
(* made.  cleanupInterval is 0 for null, else the id of the timer it holds.*)

\* Number of interval timers created in one run.
MaxTimers == 3

\* The wall clock runs on past the expiry of every timestamp of TS.
SweepEnd == T0 + 2 * maxMessageAge + 2
SweepClock == Range(Clock) \cup {SweepEnd}

startCleanupAgain(ct) ==
    [ct EXCEPT !.cleanupInterval = ct.created + 1,
               !.timers = @ \cup {ct.created + 1},
               !.created = @ + 1]

\* startCleanup(): nothing while the field holds a timer, else a new interval
\* timer kept in the field.
startCleanup(ct) ==
    IF ct.cleanupInterval # 0
    THEN ct
    ELSE [ct EXCEPT !.cleanupInterval = ct.created + 1,
                    !.timers = @ \cup {ct.created + 1},
                    !.created = @ + 1]

\* stopCleanup(): clearInterval on the timer held, and the field back to null.
stopCleanup(ct) ==
    IF ct.cleanupInterval # 0
    THEN [ct EXCEPT !.timers = @ \ {ct.cleanupInterval}, !.cleanupInterval = 0]
    ELSE ct

StartCleanupCall ==
    /\ cleanupTimer.created < MaxTimers
    /\ cleanupTimer' = [startCleanup(cleanupTimer) EXCEPT !.swept = FALSE]
    /\ UNCHANGED <<dedupVars, storeVars, now, call, ret, hs, arrivals, holders,
                   last, lastResp, stats, trace, ac, rateLimiter, messageQueue>>

StopCleanupCall ==
    /\ cleanupTimer' = [stopCleanup(cleanupTimer) EXCEPT !.swept = FALSE]
    /\ UNCHANGED <<dedupVars, storeVars, now, call, ret, hs, arrivals, holders,
                   last, lastResp, stats, trace, ac, rateLimiter, messageQueue>>

\* An interval timer that is alive fires: cleanup() at the current time.
SweepTimer ==
    /\ cleanupTimer.timers # {}
    /\ recentMessages' = cleanup(recentMessages, now)
    /\ recentImages' = cleanup(recentImages, now)
    /\ cleanupTimer' = [cleanupTimer EXCEPT
            !.swept = (recentMessages' # recentMessages
                          \/ recentImages' # recentImages)]
    /\ UNCHANGED <<dedupVars, now, call, ret, hs, arrivals, holders,
                   last, lastResp, stats, trace, ac, rateLimiter, messageQueue>>

SweepStoreMessage(s, m, t) ==
    /\ recentMessages' = storeMessage(recentMessages, s, m, t, now)
    /\ cleanupTimer' = [cleanupTimer EXCEPT !.swept = FALSE]
    /\ UNCHANGED <<recentImages, dedupVars, now, call, ret, hs, arrivals, holders,
                   last, lastResp, stats, trace, ac, rateLimiter, messageQueue>>

SweepStoreImage(s, u, c, t) ==
    /\ recentImages' = storeImage(recentImages, s, u, c, t, now)
    /\ cleanupTimer' = [cleanupTimer EXCEPT !.swept = FALSE]
    /\ UNCHANGED <<recentMessages, dedupVars, now, call, ret, hs, arrivals, holders,
                   last, lastResp, stats, trace, ac, rateLimiter, messageQueue>>

\* Time passes.
SweepTick ==
    /\ \E t \in SweepClock : t > now /\ now' = t
    /\ UNCHANGED <<storeVars, dedupVars, call, ret, hookVars>>

NextSweep ==
    \/ StartCleanupCall
    \/ StopCleanupCall
    \/ SweepTimer
    \/ \E s \in StoreSenders, m \in {TextA, TextB}, t \in TS : SweepStoreMessage(s, m, t)
    \/ \E s \in StoreSenders, c \in StoreCaptions, t \in TS :
           SweepStoreImage(s, "u1", c, t)
    \/ SweepTick

\* Time goes on, and a timer that stays alive goes on firing.
SpecSweep ==
    /\ Init
    /\ [][NextSweep]_vars
    /\ WF_vars(SweepTick)
    /\ WF_vars(SweepTimer)

-----------------------------------------------------------------------------
(* SpecQueue: the MessageQueue singleton (src/utils/messageQueue.js).      *)
(* enqueue and clear run to their end at once; startProcessing runs from   *)
(* one await to the next as one step: from the setImmediate callback to    *)
(* the first await item.processFunction(...), from the settling of that    *)
(* promise to the 100 ms delay or to the end of the loop, from the end of   *)
(* the delay to the next processFunction.                                  *)

\* maxQueueSize (100 in the code) and the number of enqueue calls followed.
MaxQueueSize == 2
MaxEnqueued == 5

\* How the promise of item.processFunction(item.messageData) settles: it
\* resolves, it rejects with an error object (or any value that has
\* properties), it rejects with undefined or null.
Outcomes == {"resolve", "reject", "rejectNullish"}

RemoveAt(q, i) == SubSeq(q, 1, i - 1) \o SubSeq(q, i + 1, Len(q))

queueFullAbove(queue) == Len(queue) > MaxQueueSize

\* this.queue.length >= this.maxQueueSize
queueFull(queue) == Len(queue) >= MaxQueueSize

mustStartAlways(mq) == TRUE

\* if (!this.processing)
mustStart(mq) == ~mq.processing

\* enqueue(messageData, processFunction): on a full queue the oldest waiting
\* item is shifted out, the new item is pushed, and unless the flag is set it
\* is set and startProcessing is scheduled with setImmediate.
enqueue(mq) ==
    LET item == mq.enqueued + 1
        full == queueFull(mq.queue)
    IN  [mq EXCEPT
            !.queue = Append(IF full THEN Tail(mq.queue) ELSE mq.queue, item),
            !.dropped = IF full THEN @ \cup {Head(mq.queue)} ELSE @,
            !.enqueued = item,
            !.processing = TRUE,
            !.loops = IF mustStart(mq)
                      THEN Append(@, [pc |-> "scheduled", item |-> 0])
                      ELSE @]

\* The while loop of startProcessing at its test, in call l: with an item
\* waiting it is shifted and its processFunction called, else the flag is
\* reset and the call returns.
whileTest(mq, l) ==
    IF Len(mq.queue) > 0
    THEN [mq EXCEPT !.queue = Tail(@),
                    !.handed = Append(@, Head(mq.queue)),
                    !.loops[l] = [pc |-> "process", item |-> Head(mq.queue)]]
    ELSE [mq EXCEPT !.processing = FALSE, !.loops = RemoveAt(@, l)]

\* After the try / catch: the 100 ms delay while items wait, else the test of
\* the while loop.
afterItem(mq, l) ==
    IF Len(mq.queue) > 0
    THEN [mq EXCEPT !.loops[l] = [pc |-> "delay", item |-> 0]]
    ELSE whileTest(mq, l)

\* The promise of the processFunction settles in call l.  A rejection runs
\* the catch block: the counter, then console.error(..., error.message), which
\* throws TypeError when error is undefined or null; that exception leaves
\* startProcessing, whose call ends there with the flag as it is.
settle(mq, l, outcome) ==
    CASE outcome = "resolve" ->
            afterItem([mq EXCEPT !.successfullyProcessed = @ + 1,
                                 !.finished = @ + 1], l)
      [] outcome = "reject" ->
            afterItem([mq EXCEPT !.processingErrors = @ + 1,
                                 !.finished = @ + 1], l)
      [] outcome = "rejectNullish" ->
            [mq EXCEPT !.processingErrors = @ + 1,
                       !.finished = @ + 1,
                       !.thrown = @ + 1,
                       !.loops = RemoveAt(@, l)]

\* clear(): the waiting items are gone; the flag is not touched.
clearQueue(mq) ==
    [mq EXCEPT !.queue = <<>>, !.dropped = @ \cup Range(mq.queue)]

\* getStats()
getStats(mq) ==
    [queueLength |-> Len(mq.queue), isProcessing |-> mq.processing,
     successfullyProcessed |-> mq.successfullyProcessed,
     processingErrors |-> mq.processingErrors]

queueRest == <<dedupVars, storeVars, now, call, ret, hs, arrivals, holders, last,
               lastResp, stats, trace, ac, rateLimiter, cleanupTimer>>

Enqueue ==
    /\ messageQueue.enqueued < MaxEnqueued
    /\ messageQueue' = enqueue(messageQueue)
    /\ UNCHANGED queueRest

\* The setImmediate callback: startProcessing() up to its first await.
StartProcessing(l) ==
    /\ l \in 1..Len(messageQueue.loops)
    /\ messageQueue.loops[l].pc = "scheduled"
    /\ messageQueue' = whileTest([messageQueue EXCEPT !.processing = TRUE], l)
    /\ UNCHANGED queueRest

ProcessSettle(l, outcome) ==
    /\ l \in 1..Len(messageQueue.loops)
    /\ messageQueue.loops[l].pc = "process"
    /\ messageQueue' = settle(messageQueue, l, outcome)
    /\ UNCHANGED queueRest

\* The 100 ms delay is over: back to the test of the while loop.
QueueDelayElapsed(l) ==
    /\ l \in 1..Len(messageQueue.loops)
    /\ messageQueue.loops[l].pc = "delay"
    /\ messageQueue' = whileTest(messageQueue, l)
    /\ UNCHANGED queueRest

ClearQueueCall ==
    /\ messageQueue' = clearQueue(messageQueue)
    /\ UNCHANGED queueRest

QueueLoops == 1..(MaxEnqueued + 1)

NextQueue ==
    \/ Enqueue
    \/ \E l \in QueueLoops : StartProcessing(l)
    \/ \E l \in QueueLoops, outcome \in Outcomes : ProcessSettle(l, outcome)
    \/ \E l \in QueueLoops : QueueDelayElapsed(l)
    \/ ClearQueueCall

\* The event loop runs the setImmediate callback and ends the delay, and
\* every call of a processFunction settles.
SpecQueue ==
    /\ Init
    /\ [][NextQueue]_vars
    /\ WF_vars(\E l \in QueueLoops : StartProcessing(l))
    /\ WF_vars(\E l \in QueueLoops, outcome \in Outcomes : ProcessSettle(l, outcome))
    /\ WF_vars(\E l \in QueueLoops : QueueDelayElapsed(l))

-----------------------------------------------------------------------------
(* Properties of the processed-id set (SpecDedup).                         *)

Distinct(q) == \A i, j \in 1..Len(q) : i # j => q[i] # q[j]

\* C2. Dedup idempotence: after markProcessed(x) the id x is in the set and
\* isProcessed(x) returns true for as long as x is not evicted (by a
\* markProcessed of a new id on a full set) and the store is not cleared;
\* isProcessed never changes the set and returns false for an id never marked;
\* markProcessed(x) of an id already present leaves the set as it was.
C2_DedupIdempotence ==
    [][\A x \in DedupIds :
          /\ (call'.op = "markProcessed" /\ call'.id = x)
                => x \in Range(processedMessages')
          /\ (call'.op = "markProcessed" /\ call'.id = x
                /\ x \in Range(processedMessages))
                => processedMessages' = processedMessages
          /\ (call'.op = "isProcessed" /\ call'.id = x)
                => /\ processedMessages' = processedMessages
                   /\ (x \in Range(processedMessages) => ret'.found)
                   /\ (x \notin everMarked => ~ret'.found)
          /\ (x \in Range(processedMessages) /\ x \notin Range(processedMessages'))
                => \/ call'.op = "clear"
                   \/ /\ call'.op = "markProcessed"
                      /\ call'.id \notin Range(processedMessages)
                      /\ Len(processedMessages) = MaxProcessedSize
      ]_vars

\* C2 witness: markProcessed was just called with an id that was already
\* in a full set.
C2_Witness ==
    /\ call.op = "markProcessed"
    /\ call.had
    /\ call.id \in Range(processedMessages)
    /\ Len(processedMessages) = MaxProcessedSize

\* C3. Dedup size bound: the set never holds more than maxProcessedSize ids
\* (each once); once more than maxProcessedSize ids have been inserted it holds
\* exactly maxProcessedSize, and of maxProcessedSize + k distinct ids inserted
\* the k earliest are no longer members.
C3_DedupSizeBound ==
    /\ Len(processedMessages) <= MaxProcessedSize
    /\ Distinct(processedMessages)
    /\ Len(inserted) > MaxProcessedSize
          => /\ Len(processedMessages) = MaxProcessedSize
             /\ Distinct(inserted)
                   => \A i \in 1..(Len(inserted) - MaxProcessedSize) :
                          inserted[i] \notin Range(processedMessages)

\* C3 witness: maxProcessedSize + 2 distinct ids have been inserted.
C3_Witness ==
    /\ Len(inserted) = MaxProcessedSize + 2
    /\ Distinct(inserted)
    /\ Len(processedMessages) = MaxProcessedSize

\* C4. Insertion-order eviction: the processed set is at every moment the
\* hash-set and FIFO queue of the reference design (same members, same
\* order), which isProcessed and the re-marking of a member leave alone; the
\* maxProcessedSize ids inserted last are members.
C4_DedupFifo ==
    /\ processedMessages = refQueue
    /\ Range(processedMessages) = refSet
    /\ \A i \in 1..Len(inserted) :
          i > Len(inserted) - MaxProcessedSize
             => inserted[i] \in Range(processedMessages)

\* C4 witness: after an eviction, a member that is not the newest was marked
\* again and kept its place at the head of the order.
C4_Witness ==
    /\ Len(inserted) > MaxProcessedSize
    /\ call.op = "markProcessed"
    /\ call.had
    /\ MaxProcessedSize > 1
    /\ call.id = Head(processedMessages)

-----------------------------------------------------------------------------
(* Properties of the windowed maps (SpecStore).                            *)

AtMostOne(m) == \A e1, e2 \in m : e1.sender = e2.sender => e1 = e2
EntriesOf(m, s) == {e \in m : e.sender = s}

C8_LazyExpiry ==
    [][\A s \in StoreSenders :
          /\ (call'.op = "getRecentMessage" /\ call'.sender = s)
                => /\ (MapHas(recentMessages, s)
                         /\ call'.ts - MapGet(recentMessages, s).timestamp
                               > maxMessageAge)
                         => (~ret'.found /\ ~MapHas(recentMessages', s))
                   /\ ~MapHas(recentMessages, s)
                         => (~ret'.found /\ ~MapHas(recentMessages', s))
          /\ (call'.op = "getRecentImage" /\ call'.sender = s)
                => /\ (MapHas(recentImages, s)
                         /\ call'.ts - MapGet(recentImages, s).timestamp
                               > maxMessageAge)
                         => (~ret'.found /\ ~MapHas(recentImages', s))
                   /\ ~MapHas(recentImages, s)
                         => (~ret'.found /\ ~MapHas(recentImages', s))
          /\ (~MapHas(recentMessages, s) /\ MapHas(recentMessages', s))
                => (call'.op = "storeMessage" /\ call'.sender = s)
          /\ (~MapHas(recentImages, s) /\ MapHas(recentImages', s))
                => (call'.op = "storeImage" /\ call'.sender = s)
      ]_vars

\* C8 witness: a lookup found an entry, returned absent and left none.
C8_Witness ==
    /\ call.op = "getRecentMessage"
    /\ call.had
    /\ ~ret.found
    /\ ~MapHas(recentMessages, call.sender)

Times == TS \cup Range(Clock)

\* C15. Sweep postcondition: cleanup() at time now removes from the text map
\* and from the image map exactly the entries with now - timestamp > 60000,
\* keeps every other entry as it is, and leaves the processed set alone.
C15_SweepPostcondition ==
    [][(call'.op = "cleanup" /\ now' = now)
          => /\ recentMessages' \subseteq recentMessages
             /\ recentImages' \subseteq recentImages
             /\ \A e \in recentMessages :
                   e \in recentMessages' <=> now - e.timestamp <= maxMessageAge
             /\ \A e \in recentImages :
                   e \in recentImages' <=> now - e.timestamp <= maxMessageAge
             /\ processedMessages' = processedMessages
      ]_vars

\* C15 witness: cleanup removed a text entry older than the window, kept an
\* image entry exactly 60000 ms old, with an id in the processed set.
C15_Witness ==
    /\ call.op = "cleanup"
    /\ call.had
    /\ recentMessages = {}
    /\ \E e \in recentImages : now - e.timestamp = maxMessageAge
    /\ processedMessages # <<>>

\* C16, as claimed: for every stored entry and every time T, cleanup at T
\* deletes the entry exactly when a lookup of its sender at T returns absent
\* and deletes it.
C16_SameExpiryPredicate ==
    \A T \in Times :
       /\ \A e \in recentMessages :
             e \notin cleanup(recentMessages, T)
                <=> /\ ~getRecentMessageRet(recentMessages, e.sender, T).found
                    /\ e \notin getRecentMessageMap(recentMessages, e.sender, T)
       /\ \A e \in recentImages :
             e \notin cleanup(recentImages, T)
                <=> /\ ~getRecentImageRet(recentImages, e.sender, T).found
                    /\ e \notin getRecentImageMap(recentImages, e.sender, T)

-----------------------------------------------------------------------------
(* Properties of the webhook handler (Spec).                               *)

\* The step is the start of a handler (a Deliver) ...
Delivered == arrivals' = arrivals + 1

\* ... that decided the pairing of an image in the same stretch, as handler h.
ImageDecidedAtDeliver(h) ==
    /\ Delivered
    /\ last'.outcome = "decided"
    /\ last'.ev.kind = "image"
    /\ hs'[h].n = last'.n

\* The step is the continuation of handler h after getMediaUrlFromMeta.
ImageDecidedAtMediaReturn(h) ==
    /\ hs[h].pc = "media"
    /\ hs'[h].pc = "analyze"

\* The sender has no stored text within 60000 ms of timestamp t.
NoTextWithin(s, t) ==
    \A e \in EntriesOf(recentMessages, s) : Abs(t - e.timestamp) > maxMessageAge

\* C1. Dedup short-circuit: a delivery whose id is in the processed set is
\* answered 'Duplicate' and changes nothing (no handler goes on to
\* analyzeComplaint / appendToSheet, no store or dedup operation); for every
\* id in the set at most one delivery has passed the check since the id
\* entered the set, whatever the interleaving of the handlers.
C1_DedupShortCircuit ==
    /\ [](\A x \in Range(processedMessages) :
             x \in DOMAIN holders /\ Cardinality(holders[x]) <= 1)
    /\ [][(Delivered /\ last'.outcome # "nodata"
              /\ last'.ev.id \in Range(processedMessages))
             => /\ last'.outcome = "duplicate"
                /\ lastResp' = "Duplicate"
                /\ UNCHANGED <<processedMessages, recentMessages, recentImages,
                               hs, holders, stats>>
         ]_vars

\* C1 witness: a delivery was answered 'Duplicate' while the delivery of the
\* same id that passed the check is still in flight.
C1_Witness ==
    /\ last.outcome = "duplicate"
    /\ \E h \in Handlers :
          /\ hs[h].pc \in {"media", "analyze", "append"}
          /\ hs[h].id = last.ev.id
          /\ holders[last.ev.id] = {hs[h].n}

\* C5. End-to-end pairing, as claimed: the image with an empty caption and
\* event timestamp 30000 that follows the sender's text with event timestamp 0
\* gets that text and the paired confidence tag.
C5_PairingAtZero ==
    [][\A h \in Handlers :
          (/\ ImageDecidedAtDeliver(h)
           /\ ~Truthy(last'.ev.caption)
           /\ last'.ev.ts = 30000
           /\ last.outcome = "decided"
           /\ last.ev.kind = "text"
           /\ last.ev.ts = 0
           /\ last.ev.sender = last'.ev.sender
           /\ Truthy(sanitizeText(last.ev.text))
           /\ last.ev.text.len <= StoredMessageLimit)
          => /\ hs'[h].messageText = sanitizeText(last.ev.text)
             /\ hs'[h].confidence = "paired_image_text"
      ]_vars

\* C6. Fallback sentinel: an image without caption whose sender has no stored
\* text within 60000 ms of the image's timestamp gets the sentinel text and
\* the image_only tag; the text resolved for an image is never empty.
C6_FallbackSentinel ==
    /\ [](\A h \in Handlers :
             (hs[h].pc \in {"analyze", "append"} /\ hs[h].kind = "image")
                => (Truthy(hs[h].messageText) /\ hs[h].messageText.len > 0))
    /\ [][\A h \in Handlers :
             /\ (/\ ImageDecidedAtDeliver(h)
                 /\ ~Truthy(last'.ev.caption)
                 /\ NoTextWithin(last'.ev.sender, parseTimestampMs(last'.ev, now)))
                => /\ hs'[h].messageText = Sentinel
                   /\ hs'[h].confidence = "image_only"
             /\ (/\ ImageDecidedAtMediaReturn(h)
                 /\ ~Truthy(hs[h].caption)
                 /\ NoTextWithin(hs[h].sender, hs[h].timestampMs))
                => /\ hs'[h].messageText = Sentinel
                   /\ hs'[h].confidence = "image_only"
         ]_vars

\* C6 witness: an image without caption, delivered after a text of the same
\* sender that is still being handled, got the sentinel, and the sender is left
\* without a text entry.
C6_Witness ==
    /\ last.outcome = "decided"
    /\ last.ev.kind = "image"
    /\ ~Truthy(last.ev.caption)
    /\ ~MapHas(recentMessages, last.ev.sender)
    /\ \E h \in Handlers :
          /\ hs[h].n = last.n
          /\ hs[h].messageText = Sentinel
          /\ hs[h].confidence = "image_only"
    /\ \E g \in Handlers :
          /\ hs[g].kind = "text"
          /\ hs[g].sender = last.ev.sender
          /\ hs[g].n < last.n
          /\ Truthy(hs[g].messageText)

\* C10 as claimed: every image whose caption is a non-empty string gets the
\* caption as its text, with the caption tag, and leaves the text map alone.
C10_AnyCaptionPrecedes ==
    [][\A h \in Handlers :
          (ImageDecidedAtDeliver(h) /\ Truthy(last'.ev.caption))
             => /\ hs'[h].messageText = last'.ev.caption
                /\ hs'[h].confidence = "image_with_caption"
                /\ recentMessages' = recentMessages
      ]_vars

\* C10. Caption precedes pairing: an image whose caption is non-empty after
\* trimming whitespace gets the caption as its text, with the caption tag, and
\* the text map is left exactly as it was (no lookup, no lazy expiry), also
\* when the sender has a pairable text stored.
C10_CaptionPrecedes ==
    [][\A h \in Handlers :
          /\ (ImageDecidedAtDeliver(h) /\ last'.ev.caption.len > 0)
                => /\ hs'[h].messageText = last'.ev.caption
                   /\ hs'[h].confidence = "image_with_caption"
                   /\ recentMessages' = recentMessages
          /\ (ImageDecidedAtMediaReturn(h) /\ hs[h].caption.len > 0)
                => /\ hs'[h].messageText = hs[h].caption
                   /\ hs'[h].confidence = "image_with_caption"
                   /\ recentMessages' = recentMessages
      ]_vars

\* C10 witness: an image with a caption got its caption while the sender's
\* text, stored within the window of the image, stays in the map.
C10_Witness ==
    /\ last.outcome = "decided"
    /\ last.ev.kind = "image"
    /\ last.ev.caption = Cap
    /\ last.ev.ts # 0
    /\ \E h \in Handlers :
          /\ hs[h].n = last.n
          /\ hs[h].confidence = "image_with_caption"
    /\ \E e \in EntriesOf(recentMessages, last.ev.sender) :
          Abs(last.ev.ts - e.timestamp) <= maxMessageAge

\* C11, as claimed: while a handler that has marked its id has not finished
\* the store operations of its pairing decision, no step of another delivery
\* changes the text map or the image map.
C11_NonInterleavedPairing ==
    [][\A h \in Handlers :
          (hs[h].pc = "media" /\ hs'[h] = hs[h] /\ hs' # hs)
             => UNCHANGED <<recentMessages, recentImages>>
      ]_vars

-----------------------------------------------------------------------------
(* Properties of pairing, one delivery at a time (SpecPair).               *)

\* The text and the caption-less image of one pair, in either order.
TextOf(e1, e2) == IF e1.ev.kind = "text" THEN e1 ELSE e2
ImageOf(e1, e2) == IF e1.ev.kind = "image" THEN e1 ELSE e2

\* Deliveries i and i + 1 of the trace are a text and a caption-less image of
\* one sender, with event timestamps 10 s apart, both handled while the window
\* of the first is open.
PairOfTen(i) ==
    /\ i + 1 <= Len(trace)
    /\ Decided(trace[i]) /\ Decided(trace[i + 1])
    /\ trace[i].ev.sender = trace[i + 1].ev.sender
    /\ {trace[i].ev.kind, trace[i + 1].ev.kind} = {"text", "image"}
    /\ ~Truthy(ImageOf(trace[i], trace[i + 1]).ev.caption)
    /\ Abs(trace[i].ev.ts - trace[i + 1].ev.ts) = PairGap
    /\ trace[i].ev.ts # 0 /\ trace[i + 1].ev.ts # 0
    /\ Abs(now - trace[i].ev.ts) <= maxMessageAge
    /\ Abs(now - trace[i + 1].ev.ts) <= maxMessageAge

\* C12, as claimed: of a text and a caption-less image of one sender 10 s
\* apart, the one handled second resolves to the text and the image URL with a
\* paired confidence tag, whichever it is.
C12_OrderIndependentPairing ==
    \A i \in 1..Len(trace) :
        PairOfTen(i)
           => /\ trace[i + 1].confidence \in {"paired_image_text", "paired_text_image"}
              /\ trace[i + 1].messageText
                    = sanitizeText(TextOf(trace[i], trace[i + 1]).ev.text)
              /\ trace[i + 1].imageUrl = ImageOf(trace[i], trace[i + 1]).ev.url

\* What processMessageWithContext returned for the deliveries of a trace.
Results(tr) ==
    [i \in 1..Len(tr) |-> [messageText |-> tr[i].messageText,
                           imageUrl |-> tr[i].imageUrl,
                           confidence |-> tr[i].confidence]]

\* A second run of the handler over the same deliveries, one after the other,
\* on maps that start as rm and ri: Date.now() is t all along and the cleanup
\* timer never fires.  The results of that run, in order.
RECURSIVE Replay(_, _, _, _)
Replay(tr, rm, ri, t) ==
    IF tr = <<>> THEN <<>>
    ELSE LET ev == Head(tr).ev
             tms == parseTimestampMs(ev, t)
             d == IF ev.kind = "text"
                  THEN textBranch(rm, ri, ev.sender, ev.text, tms, t)
                  ELSE imageBranch(rm, ri, ev.sender, ev.caption, tms, ev.url, t)
         IN  <<[messageText |-> d.messageText, imageUrl |-> d.imageUrl,
                confidence |-> d.confidence]>>
             \o Replay(Tail(tr), d.rm, d.ri, t)

\* C13, as claimed: the results of a sequence of deliveries are those of every
\* other run over the same deliveries, whatever the wall-clock times and the
\* firings of the cleanup timer; here the other run is the one in which the
\* clock stands at its first value and the timer never fires.
C13_WallClockIndependence ==
    (\A i \in 1..Len(trace) : Decided(trace[i]))
       => Results(trace) = Replay(trace, {}, {}, Clock[1])

\* What the handler would have done for the delivery e of sender a on maps
\* that hold a's entries only: the maps of a run without the other senders.
OwnBranch(e, rm, ri, t) ==
    IF e.ev.kind = "text"
    THEN textBranch(EntriesOf(rm, e.ev.sender), EntriesOf(ri, e.ev.sender),
                    e.ev.sender, e.ev.text, parseTimestampMs(e.ev, t), t)
    ELSE imageBranch(EntriesOf(rm, e.ev.sender), EntriesOf(ri, e.ev.sender),
                     e.ev.sender, e.ev.caption, parseTimestampMs(e.ev, t),
                     e.ev.url, t)

\* C17. Sender independence: handling a delivery of sender a leaves the text
\* and image entries of every other sender as they were, and what it resolves
\* to and the entries it leaves for a are what it would resolve to and leave
\* on maps holding a's entries only (so the deliveries of other senders, handled
\* in between or not, make no difference to a's results).
C17_SenderIndependence ==
    [][(Delivered /\ Decided(trace'[Len(trace')]))
          => LET e == trace'[Len(trace')]
                 a == e.ev.sender
                 own == OwnBranch(e, recentMessages, recentImages, now)
             IN  /\ \A b \in PairSenders \ {a} :
                       /\ EntriesOf(recentMessages', b) = EntriesOf(recentMessages, b)
                       /\ EntriesOf(recentImages', b) = EntriesOf(recentImages, b)
                 /\ e.messageText = own.messageText
                 /\ e.imageUrl = own.imageUrl
                 /\ e.confidence = own.confidence
                 /\ EntriesOf(recentMessages', a) = own.rm
                 /\ EntriesOf(recentImages', a) = own.ri
      ]_vars

\* C17 witness: a text of one sender, then a text of the other sender, then
\* the first sender's image, which resolved to the first sender's text while
\* the other sender's text is still stored.
C17_Witness ==
    /\ Len(trace) = 3
    /\ trace[1].ev.kind = "text" /\ trace[2].ev.kind = "text"
    /\ trace[3].ev.kind = "image"
    /\ trace[1].ev.sender = trace[3].ev.sender
    /\ trace[2].ev.sender # trace[1].ev.sender
    /\ trace[3].confidence = "paired_image_text"
    /\ trace[3].messageText = trace[1].messageText
    /\ MapHas(recentMessages, trace[2].ev.sender)
    /\ MapHas(recentMessages, trace[1].ev.sender)

\* Delivery j of the trace is the image of that sender handled last before
\* delivery i.
LastImageBefore(j, i) ==
    /\ j < i
    /\ Decided(trace[j])
    /\ trace[j].ev.kind = "image"
    /\ trace[j].ev.sender = trace[i].ev.sender
    /\ \A k \in (j + 1)..(i - 1) :
          ~(trace[k].ev.kind = "image" /\ trace[k].ev.sender = trace[i].ev.sender)

\* C18. Reverse pairing: a text that resolves to an image URL got it from the
\* image of its sender that was stored last before it, and the timestamp of
\* that image is within 60000 ms of the text's; it never gets the URL of an
\* image that a later image of the sender replaced, nor of one further away.
C18_ReversePairing ==
    \A i \in 1..Len(trace) :
        (Decided(trace[i]) /\ trace[i].ev.kind = "text"
            /\ trace[i].imageUrl # "null")
           => /\ trace[i].confidence = "paired_text_image"
              /\ \E j \in 1..Len(trace) :
                    /\ LastImageBefore(j, i)
                    /\ trace[i].imageUrl = trace[j].ev.url
                    /\ Abs(parseTimestampMs(trace[i].ev, now)
                           - parseTimestampMs(trace[j].ev, now)) <= maxMessageAge

\* C18 witness: two images of a sender, then the sender's text, which got the
\* URL of the second image.
C18_Witness ==
    /\ Len(trace) = 3
    /\ trace[1].ev.kind = "image" /\ trace[2].ev.kind = "image"
    /\ trace[3].ev.kind = "text"
    /\ trace[1].ev.sender = trace[3].ev.sender
    /\ trace[2].ev.sender = trace[3].ev.sender
    /\ trace[1].ev.ts = trace[3].ev.ts
    /\ trace[3].imageUrl = trace[2].ev.url
    /\ trace[3].imageUrl # trace[1].ev.url
    /\ trace[3].confidence = "paired_text_image"

-----------------------------------------------------------------------------
(* Properties of redelivery (SpecRedelivery).                              *)

\* The step is the catch block of the handler in flight.
Failing == hs[1].pc = "append" /\ lastResp' = "error"

\* The step is a delivery whose id is that of an earlier delivery that failed.
RedeliveryOfFailed ==
    /\ Delivered
    /\ \E i \in 1..Len(trace) :
          trace[i].outcome = "error" /\ trace[i].id = trace'[Len(trace')].id

RedeliveryIgnored ==
    /\ trace'[Len(trace')].outcome = "duplicate"
    /\ lastResp' = "Duplicate"
    /\ UNCHANGED <<processedMessages, recentMessages, recentImages, hs, stats>>

\* C14, as claimed: a failure leaves the maps and the processed mark alone, and
\* every later delivery of the id of a failed delivery is answered 'Duplicate'.
C14_NoRollbackEver ==
    [][/\ Failing => /\ UNCHANGED <<processedMessages, recentMessages, recentImages>>
                     /\ hs[1].id \in Range(processedMessages')
       /\ RedeliveryOfFailed => RedeliveryIgnored
      ]_vars

\* C14. No rollback on downstream failure: the catch block answers 500 and
\* leaves the text map, the image map and the processed set exactly as they
\* were, the id of the failed delivery still marked; a later delivery of that
\* id is answered 'Duplicate' and changes nothing, for as long as the id has
\* not been evicted from the processed set.
C14_NoRollback ==
    [][/\ Failing => /\ UNCHANGED <<processedMessages, recentMessages, recentImages>>
                     /\ hs[1].id \in Range(processedMessages')
       /\ (RedeliveryOfFailed
             /\ trace'[Len(trace')].id \in Range(processedMessages))
             => RedeliveryIgnored
      ]_vars

\* C14 witness: a text whose append failed is still the sender's entry and its
\* id still marked, and the delivery that came next, with the same id, was
\* answered 'Duplicate'.
C14_Witness ==
    /\ Len(trace) >= 2
    /\ trace[Len(trace) - 1].outcome = "error"
    /\ trace[Len(trace) - 1].ev.kind = "text"
    /\ trace[Len(trace)].id = trace[Len(trace) - 1].id
    /\ trace[Len(trace)].outcome = "duplicate"
    /\ trace[Len(trace)].id \in Range(processedMessages)
    /\ \E e \in recentMessages :
          /\ e.sender = trace[Len(trace) - 1].ev.sender
          /\ e.message = trace[Len(trace) - 1].messageText

\* C19, as claimed: a delivery with the same body as the delivery before it is
\* given the same message id and is answered as a duplicate, also when the
\* body carries no id of its own.
C19_SameIdForSameEvent ==
    \A i \in 1..Len(trace) :
        (i + 1 <= Len(trace) /\ trace[i].ev = trace[i + 1].ev)
           => /\ trace[i + 1].id = trace[i].id
              /\ trace[i + 1].outcome = "duplicate"

-----------------------------------------------------------------------------
(* Properties of analyzeComplaint (SpecAnalyze).                           *)

\* At most 4 requests, the backoff delays of the 5xx / 429 retries, and never
\* an exception to the caller.
AnalyzeBounded ==
    /\ ac.requests <= maxRetries + 1
    /\ ac.requests = IF ac.pc = "idle" \/ (ac.retryCount = 0 /\ ac.requests = 0)
                     THEN 0 ELSE ac.retryCount + 1
    /\ \A n \in 1..Len(ac.delays) :
          ac.delays[n] \in {2000, backoff(n - 1)}
    /\ ac.pc = "done" => ac.result \in {"ai", "fallback"}

\* C20, as claimed: one call makes at most 4 requests, waits the backoff
\* delays, and always comes to its end with a result record.
C20_BoundedRetry ==
    /\ []AnalyzeBounded
    /\ <>(ac.pc = "done")

-----------------------------------------------------------------------------
(* Properties of the rate limiter (SpecRate).                              *)

\* The request times of phone p that checkLimit allowed in (t - windowMs, t].
AllowedIn(p, t) ==
    {i \in 1..Len(rateLimiter.allowedAt[p]) :
        /\ rateLimiter.allowedAt[p][i] > t - windowMs
        /\ rateLimiter.allowedAt[p][i] <= t}

RateBounded ==
    /\ \A p \in Phones : \A t \in RateClock :
          Cardinality(AllowedIn(p, t)) <= MaxRequests
    /\ ~rateLimiter.result.allowed => rateLimiter.result.retryAfter >= 1

\* C21. Per-phone rate limit: in every window (t - windowMs, t] checkLimit has
\* allowed at most maxRequests requests of a phone; a request over the limit
\* is rejected with retryAfter >= 1 and leaves the requests Map as it was.
C21_RateLimit ==
    /\ []RateBounded
    /\ [][(rateLimiter'.calls # rateLimiter.calls /\ ~rateLimiter'.result.allowed)
            => rateLimiter'.requests = rateLimiter.requests]_vars

\* A phone with a full window is rejected after it was allowed again once the
\* window of its first requests had passed.
C21_Witness ==
    \E p \in Phones :
        /\ rateLimiter.result.phone = p
        /\ ~rateLimiter.result.allowed
        /\ Len(rateLimiter.allowedAt[p]) > MaxRequests

-----------------------------------------------------------------------------
(* Properties of sanitizeForSheets (SpecSheets).                           *)

\* C22, as claimed: for every string the value sanitizeForSheets returns does
\* not begin with =, +, - or @, and a string that begins with none of them and
\* holds no control character is returned unchanged.
C22_NoFormulaStart ==
    call.op = "sanitizeForSheets"
       => /\ ~startsFormula(ret)
          /\ (~startsFormula(call.value) /\ removeControl(call.value) = call.value)
                => ret = call.value

-----------------------------------------------------------------------------
(* Further properties of the windowed maps (SpecStore).                    *)

\* C23, as claimed: a lookup whose timestamp is earlier than the timestamp of
\* the sender's entry returns the stored value whatever the gap, and leaves
\* the entry in the map.
C23_SignedDifference ==
    [][\A s \in StoreSenders :
          /\ (call'.op = "getRecentMessage" /\ call'.sender = s /\ now' = now
                /\ MapHas(recentMessages, s)
                /\ call'.ts < MapGet(recentMessages, s).timestamp)
                => /\ ret'.found
                   /\ ret'.text = MapGet(recentMessages, s).message
                   /\ recentMessages' = recentMessages
          /\ (call'.op = "getRecentImage" /\ call'.sender = s /\ now' = now
                /\ MapHas(recentImages, s)
                /\ call'.ts < MapGet(recentImages, s).timestamp)
                => /\ ret'.found
                   /\ ret'.url = MapGet(recentImages, s).url
                   /\ recentImages' = recentImages
      ]_vars

\* C24, as claimed: storeMessage(sender, v, t) with any text v and any
\* timestamp t leaves as the sender's text entry exactly v recorded at t, so
\* that a lookup at t returns v.
C24_StoreAlwaysRecords ==
    [][\A s \in StoreSenders :
          (call'.op = "storeMessage" /\ call'.sender = s /\ now' = now)
             => /\ EntriesOf(recentMessages', s)
                      = {[sender |-> s, message |-> call'.text,
                          timestamp |-> call'.ts]}
                /\ getRecentMessageRet(recentMessages', s, call'.ts).found
                /\ getRecentMessageRet(recentMessages', s, call'.ts).text
                      = call'.text
      ]_vars

-----------------------------------------------------------------------------
(* Properties of the cleanup timer (SpecSweep).                            *)

\* The timestamps an entry can carry whose expiry the clock of the model
\* reaches.
SweepStamps == {t \in TS \cup SweepClock : t + maxMessageAge < SweepEnd}

TimerRunning == cleanupTimer.cleanupInterval # 0

\* C25. No indefinite retention: while the cleanup timer runs, every stored
\* text or image entry is eventually removed or overwritten although no lookup
\* is ever made; and however often startCleanup is called, at most one
\* interval timer is alive.
C25_NoIndefiniteRetention ==
    /\ [](Cardinality(cleanupTimer.timers) <= 1)
    /\ \A s \in StoreSenders : \A t \in SweepStamps :
          /\ (TimerRunning /\ \E e \in recentMessages :
                                  e.sender = s /\ e.timestamp = t)
                ~> (~TimerRunning \/ ~\E e \in recentMessages :
                                        e.sender = s /\ e.timestamp = t)
          /\ (TimerRunning /\ \E e \in recentImages :
                                  e.sender = s /\ e.timestamp = t)
                ~> (~TimerRunning \/ ~\E e \in recentImages :
                                        e.sender = s /\ e.timestamp = t)

\* The timer, stopped and started again, has fired and removed the entries of
\* both maps.
C25_Witness ==
    /\ cleanupTimer.swept
    /\ cleanupTimer.created > 1
    /\ Cardinality(cleanupTimer.timers) = 1
    /\ recentMessages = {}
    /\ recentImages = {}

-----------------------------------------------------------------------------
(* Further properties of pairing (SpecPair).                               *)

\* C26. A successful lookup does not consume the entry: an image without
\* caption that is handled while its sender's text is stored with a timestamp
\* within 60000 ms of its own gets that text, whether or not an earlier image
\* got it already, and an image that gets a stored text leaves the text map
\* as it was.
C26_LookupKeepsEntry ==
    [][LET e == trace'[Len(trace')]
           s == e.ev.sender
       IN  (Len(trace') = Len(trace) + 1 /\ Decided(e) /\ e.ev.kind = "image"
               /\ ~hasCaption(e.ev.caption))
              => /\ (MapHas(recentMessages, s)
                       /\ Abs(parseTimestampMs(e.ev, now)
                              - MapGet(recentMessages, s).timestamp)
                             <= maxMessageAge)
                       => /\ e.confidence = "paired_image_text"
                          /\ e.messageText = MapGet(recentMessages, s).message
                 /\ e.confidence = "paired_image_text"
                       => /\ MapHas(recentMessages, s)
                          /\ e.messageText = MapGet(recentMessages, s).message
                          /\ recentMessages' = recentMessages
      ]_vars

\* C26 witness: a text written as a row of its own, then two images of its
\* sender without caption, each of which got that text, which is still stored.
C26_Witness ==
    /\ Len(trace) = 3
    /\ trace[1].ev.kind = "text" /\ trace[1].outcome = "success"
    /\ trace[2].ev.kind = "image" /\ trace[3].ev.kind = "image"
    /\ trace[2].ev.sender = trace[1].ev.sender
    /\ trace[3].ev.sender = trace[1].ev.sender
    /\ trace[2].confidence = "paired_image_text"
    /\ trace[3].confidence = "paired_image_text"
    /\ trace[2].messageText = trace[1].messageText
    /\ trace[3].messageText = trace[1].messageText
    /\ trace[2].ev.ts # trace[3].ev.ts
    /\ MapHas(recentMessages, trace[1].ev.sender)

-----------------------------------------------------------------------------
(* Properties of the background queue (SpecQueue).                         *)

\* The items whose processFunction has been called and has not settled.
InFlight ==
    {messageQueue.loops[l].item :
        l \in {k \in 1..Len(messageQueue.loops) : messageQueue.loops[k].pc = "process"}}

EnqueueStep == messageQueue'.enqueued = messageQueue.enqueued + 1

\* C27. The queue is bounded: it never holds more than maxQueueSize items; an
\* enqueue on a full queue drops the oldest waiting item and no other, the new
\* item is always the last of the queue afterwards, and the item being
\* processed is the same before and after.
C27_BoundedQueue ==
    /\ [](Len(messageQueue.queue) <= MaxQueueSize)
    /\ [][EnqueueStep =>
            /\ messageQueue'.queue[Len(messageQueue'.queue)] = messageQueue'.enqueued
            /\ IF Len(messageQueue.queue) = MaxQueueSize
               THEN /\ messageQueue'.queue
                         = Append(Tail(messageQueue.queue), messageQueue'.enqueued)
                    /\ messageQueue'.dropped
                         = messageQueue.dropped \cup {Head(messageQueue.queue)}
               ELSE /\ messageQueue'.queue
                         = Append(messageQueue.queue, messageQueue'.enqueued)
                    /\ messageQueue'.dropped = messageQueue.dropped
            /\ InFlight' = InFlight
            /\ messageQueue'.handed = messageQueue.handed
         ]_vars

\* C27 witness: an enqueue on the full queue dropped the oldest waiting item
\* while another item was being processed.
C27_Witness ==
    /\ Len(messageQueue.queue) = MaxQueueSize
    /\ messageQueue.queue[MaxQueueSize] = messageQueue.enqueued
    /\ messageQueue.dropped # {}
    /\ InFlight # {}
    /\ \A i \in InFlight : \A d \in messageQueue.dropped : i < d

\* C28. Single consumer: at most one call of startProcessing is scheduled or
\* running, at most one item is in flight, and the items are handed to their
\* processFunction in the order they were enqueued, none twice.
C28_SingleConsumer ==
    /\ Len(messageQueue.loops) <= 1
    /\ Cardinality(InFlight) <= 1
    /\ \A i, j \in 1..Len(messageQueue.handed) :
          i < j => messageQueue.handed[i] < messageQueue.handed[j]

\* C28 witness: items were enqueued while an earlier one was in flight, and
\* the loop has handed out three items so far.
C28_Witness ==
    /\ Len(messageQueue.handed) = 3
    /\ InFlight # {}
    /\ Len(messageQueue.queue) > 0
    /\ messageQueue.processing

\* C29, as claimed: every item enqueued and not removed by overflow or clear
\* is eventually handed to its processFunction, and only once; a non-empty
\* queue has the flag set; and once nothing waits and nothing is in flight the
\* flag returns to false.
C29_NoLostWakeup ==
    /\ [](Len(messageQueue.queue) > 0 => messageQueue.processing)
    /\ [](\A i, j \in 1..Len(messageQueue.handed) :
             i # j => messageQueue.handed[i] # messageQueue.handed[j])
    /\ \A item \in 1..MaxEnqueued :
          (messageQueue.enqueued >= item)
             ~> (item \in messageQueue.dropped \/ item \in Range(messageQueue.handed))
    /\ (messageQueue.queue = <<>> /\ InFlight = {})
          ~> (~messageQueue.processing \/ messageQueue.queue # <<>>)

\* A processFunction has settled by a rejection in this step.
RejectStep ==
    /\ messageQueue'.finished = messageQueue.finished + 1
    /\ messageQueue'.successfullyProcessed = messageQueue.successfullyProcessed

\* C30, as claimed: a rejection of a processFunction, whatever the value,
\* adds one to processingErrors, the item does not come back into the queue,
\* and the loop is still there for the items that wait; there is never a state
\* with the flag set, items waiting and no loop; and the two counters add up
\* to the number of items finished.
C30_FailureIsolation ==
    /\ [](~(messageQueue.processing /\ Len(messageQueue.queue) > 0
              /\ messageQueue.loops = <<>>))
    /\ [](getStats(messageQueue).successfullyProcessed
            + getStats(messageQueue).processingErrors = messageQueue.finished)
    /\ [][RejectStep =>
            /\ messageQueue'.processingErrors = messageQueue.processingErrors + 1
            /\ messageQueue'.queue = messageQueue.queue
            /\ Len(messageQueue.queue) > 0
                  => Len(messageQueue'.loops) = Len(messageQueue.loops)
         ]_vars

====
